---- MODULE Spec2Model ----
(***************************************************************************)
(* A model of the DIY client-side router of react-routing-diy              *)
(* (src/src/App.js, src/src/solution.js), of the host history it drives    *)
(* (window.history / window.location / popstate), of the earlier           *)
(* navigate(pathname) of the README's Challenge 1, and of the route        *)
(* matching of the React Router solution (src/src/solution-react-router.js)*)
(*                                                                         *)
(* A path is a sequence of one-character strings, so that prefixes,        *)
(* segment boundaries and trailing slashes are things the model computes.  *)
(***************************************************************************)
EXTENDS Naturals, Sequences, FiniteSets, TLC

VARIABLES
    history,    \* host: the session history, a sequence of pathnames
    idx,        \* host: index of the current entry; window.location.pathname = history[idx]
    page,       \* App: the `page` state of React.useState
    listeners,  \* host: number of popstate listeners registered on window
    phase,      \* App: "rendered" (effect pending), "mounted", "unmounted"
    pc,         \* position of the handler that is running, "idle" when none is
    event,      \* the event being dispatched: type, target.pathname, defaultPrevented
    realLoad,   \* host: a link click was left to its default action (a document load)
    thrown,     \* the condition raised by the last call, "none" when it returned
    ops,        \* history variable: the last two completed operations
    routes,     \* React Router: the <Route> elements under <main>, in order
    current,    \* React Router: the location's pathname the routes are matched against
    rendered    \* React Router: the indices of the routes whose children are rendered

routeVars == <<routes, current, rendered>>
vars == <<history, idx, page, listeners, phase, pc, event, realLoad, thrown, ops,
          routes, current, rendered>>

----------------------------------------------------------------------------
\* Paths

Root == <<"/">>
About == <<"/", "a", "b", "o", "u", "t">>
Contact == <<"/", "c", "o", "n", "t", "a", "c", "t">>
\* Paths no link of the app points to, which the host may still be at when the
\* app starts (the user typed them, or followed a link from elsewhere).
AboutTeam == <<"/", "a", "b", "o", "u", "t", "/", "t", "e", "a", "m">>
AboutSlash == <<"/", "a", "b", "o", "u", "t", "/">>
ShortA == <<"/", "a">>
\* A URL with a query string, which the host may be at when the app starts.
AboutQuery == <<"/", "a", "b", "o", "u", "t", "?", "q">>
\* A target without its leading slash.
RelAbout == <<"a", "b", "o", "u", "t">>

\* Bounds of the model
MaxHist == 4
MaxRoutes == 3

\* The pathnames the host may be at when the app is constructed.
InitialPaths == {Root, About, Contact, AboutTeam, AboutSlash, ShortA}

\* The URLs (path and query) the host may be at when the app is constructed.
InitialUrls == InitialPaths \cup {AboutQuery}

\* The hrefs of the three links of <nav>.
Links == {Root, About, Contact}

NoEvent == [type |-> "none", target |-> <<>>, defaultPrevented |-> FALSE]

----------------------------------------------------------------------------
\* The host: window.location and window.history

\* The path component of a URL: what precedes its query string and fragment.
PathnameOf(url) ==
    LET stops == {i \in 1..Len(url) : url[i] \in {"?", "#"}}
    IN  IF stops = {} THEN url
        ELSE SubSeq(url, 1, (CHOOSE i \in stops : \A j \in stops : i <= j) - 1)

\* A state read from the whole URL of the current entry, its query included.
PathnameWithSearch == history[idx]

\* window.location.pathname
Pathname == PathnameOf(history[idx])

LastSlash(s) ==
    CHOOSE i \in 0..Len(s) :
        /\ (i > 0 => s[i] = "/")
        /\ \A j \in (i + 1)..Len(s) : s[j] # "/"

\* The URL parser pushState runs on its third argument: a path with a leading
\* slash replaces the pathname, any other is resolved against the directory
\* of the current pathname.
ResolveUrl(url, base) ==
    IF url # <<>> /\ Head(url) = "/"
    THEN url
    ELSE SubSeq(base, 1, LastSlash(base)) \o url

\* A navigate that sets the state and leaves the URL alone (the "fake routing"
\* the README starts from).
PushStateSkipped(h, i, url) == [history |-> h, idx |-> i]

\* A navigate that calls replaceState: the current entry is overwritten.
PushStateReplace(h, i, url) ==
    [history |-> [h EXCEPT ![i] = ResolveUrl(url, PathnameOf(h[i]))], idx |-> i]

\* window.history.pushState(null, null, url): the entries after the current
\* one are dropped, an entry for the resolved url is appended and becomes
\* current. No popstate event is fired.
PushState(h, i, url) ==
    [history |-> Append(SubSeq(h, 1, i), ResolveUrl(url, PathnameOf(h[i]))), idx |-> i + 1]

\* An effect that registers nothing (the app as it is before Challenge 3).
AddListenerMissing(n) == n

\* window.addEventListener("popstate", onHistoryChange)
AddListener(n) == n + 1

\* A cleanup that passes removeEventListener another function than the one
\* registered: nothing is removed.
RemoveListenerOther(n) == n

\* window.removeEventListener("popstate", onHistoryChange): removes the
\* listener if it is registered, does nothing otherwise.
RemoveListener(n) == IF n > 0 THEN n - 1 ELSE n

----------------------------------------------------------------------------
\* The App component

\* The initial state of the app before Challenge 1: always the home page.
InitialPageHome(pathname) == Root

\* React.useState(window.location.pathname): the initial page state.
InitialPage(pathname) == pathname

\* A state setter that re-renders on every call.
NotifiesAlways(old, next) == TRUE

\* setPage(next): React re-renders the component (its observers) unless the
\* next state is identical to the current one.
Notifies(old, next) == old # next

\* An effect with no dependency array and no cleanup: every re-render
\* registers the listener once more.
ListenersAfterRenderEveryTime(n, rerendered) == IF rerendered THEN AddListener(n) ELSE n

\* The effect's dependency array is empty: a re-render does not run it again,
\* and the listeners registered stay as they are.
ListenersAfterRender(n, rerendered) == n

\* The conditions under <main>: the path each page component is shown for.
PageComponents ==
    << [path |-> Root, component |-> "Home"],
       [path |-> About, component |-> "About"],
       [path |-> Contact, component |-> "Contact"] >>

\* A <main> that falls back to the home page when no condition holds.
DiyMainFallback(pg) ==
    IF \A i \in DOMAIN PageComponents : pg # PageComponents[i].path
    THEN {"Home"}
    ELSE {PageComponents[i].component : i \in {j \in DOMAIN PageComponents : pg = PageComponents[j].path}}

\* What <main> renders: {page === path && <Component />} for each page.
DiyMain(pg) ==
    {PageComponents[i].component : i \in {j \in DOMAIN PageComponents : pg = PageComponents[j].path}}

\* The last two completed operations.
Push(log, r) == IF Len(log) < 2 THEN Append(log, r) ELSE <<log[2], r>>

Op(kind, from, to, n) == [op |-> kind, from |-> from, to |-> to, notified |-> n]

Init ==
    /\ history \in {<<u>> : u \in InitialUrls}
    /\ idx = 1
    /\ page = InitialPage(Pathname)
    /\ listeners = 0
    /\ phase = "rendered"
    /\ pc = "idle"
    /\ event = NoEvent
    /\ realLoad = FALSE
    /\ thrown = "none"
    /\ ops = <<>>
    /\ routes = <<>>
    /\ current = Root
    /\ rendered = {}

\* React.useEffect(..., []): the effect runs once, after the first render, and
\* registers onHistoryChange. React runs pending effects before it handles
\* the next event, so no click is handled in between.
RunEffect ==
    /\ phase = "rendered"
    /\ pc = "idle"
    /\ listeners' = AddListener(listeners)
    /\ phase' = "mounted"
    /\ UNCHANGED <<history, idx, page, pc, event, realLoad, thrown, ops>>
    /\ UNCHANGED routeVars

\* The effect's cleanup, run when App unmounts.
Cleanup ==
    /\ phase = "mounted"
    /\ pc = "idle"
    /\ listeners' = RemoveListener(listeners)
    /\ phase' = "unmounted"
    /\ ops' = Push(ops, Op("detach", page, page, FALSE))
    /\ UNCHANGED <<history, idx, page, pc, event, realLoad, thrown>>
    /\ UNCHANGED routeVars

\* A detach that refuses to run when nothing is attached.
CleanupAgainThrows ==
    /\ phase = "unmounted"
    /\ pc = "idle"
    /\ thrown' = IF listeners = 0 THEN "NotAttached" ELSE "none"
    /\ listeners' = RemoveListener(listeners)
    /\ ops' = Push(ops, Op("detach", page, page, FALSE))
    /\ UNCHANGED <<history, idx, page, phase, pc, event, realLoad>>
    /\ UNCHANGED routeVars

\* The cleanup function is called again after the unmount: removeEventListener
\* finds no such listener, does nothing and raises nothing.
CleanupAgain ==
    /\ phase = "unmounted"
    /\ pc = "idle"
    /\ listeners' = RemoveListener(listeners)
    /\ thrown' = "none"
    /\ ops' = Push(ops, Op("detach", page, page, FALSE))
    /\ UNCHANGED <<history, idx, page, phase, pc, event, realLoad>>
    /\ UNCHANGED routeVars

\* The user clicks one of the links of <nav>: the click event is dispatched
\* to navigate, with event.target.pathname the link's resolved href.
Click(href) ==
    /\ phase = "mounted"
    /\ pc = "idle"
    /\ idx < MaxHist
    /\ event' = [type |-> "click", target |-> ResolveUrl(href, Pathname),
                 defaultPrevented |-> FALSE]
    /\ pc' = "nav_prevent"
    /\ UNCHANGED <<history, idx, page, listeners, phase, realLoad, thrown, ops>>
    /\ UNCHANGED routeVars

\* A navigate without the preventDefault call (the Challenge 1 handler put on
\* links as it is).
NavPreventDefaultMissing ==
    /\ pc = "nav_prevent"
    /\ pc' = "nav_push"
    /\ UNCHANGED <<history, idx, page, listeners, phase, event, realLoad, thrown, ops>>
    /\ UNCHANGED routeVars

\* navigate: event.preventDefault()
NavPreventDefault ==
    /\ pc = "nav_prevent"
    /\ event' = [event EXCEPT !.defaultPrevented = TRUE]
    /\ pc' = "nav_push"
    /\ UNCHANGED <<history, idx, page, listeners, phase, realLoad, thrown, ops>>
    /\ UNCHANGED routeVars

\* A navigate whose push also announces the change, as a host move does: the
\* popstate listener is called.
NavPushStateDispatch ==
    /\ pc = "nav_push"
    /\ LET r == PushState(history, idx, event.target)
       IN  /\ history' = r.history
           /\ idx' = r.idx
    /\ pc' = IF listeners > 0 THEN "pop_set" ELSE "nav_set"
    /\ UNCHANGED <<page, listeners, phase, event, realLoad, thrown, ops>>
    /\ UNCHANGED routeVars

\* navigate: window.history.pushState(null, null, newPath)
NavPushState ==
    /\ pc = "nav_push"
    /\ LET r == PushState(history, idx, event.target)
       IN  /\ history' = r.history
           /\ idx' = r.idx
    /\ pc' = "nav_set"
    /\ UNCHANGED <<page, listeners, phase, event, realLoad, thrown, ops>>
    /\ UNCHANGED routeVars

\* navigate: setPage(newPath), after which the handler returns.
NavSetPage ==
    /\ pc = "nav_set"
    /\ page' = event.target
    /\ ops' = Push(ops, Op("navigate", page, event.target, Notifies(page, event.target)))
    /\ listeners' = ListenersAfterRender(listeners, Notifies(page, event.target))
    /\ pc' = "nav_return"
    /\ UNCHANGED <<history, idx, phase, event, realLoad, thrown>>
    /\ UNCHANGED routeVars

\* The click's dispatch ends: the host follows the link (loads a document)
\* unless the handler cancelled the default action.
NavReturn ==
    /\ pc = "nav_return"
    /\ realLoad' = (realLoad \/ ~event.defaultPrevented)
    /\ event' = NoEvent
    /\ pc' = "idle"
    /\ UNCHANGED <<history, idx, page, listeners, phase, thrown, ops>>
    /\ UNCHANGED routeVars

\* A host that delivers a move of the pointer while a handler is running.
HostMoveAnytime(kind, j) ==
    /\ pc \in {"idle", "nav_push", "nav_set"}
    /\ j \in 1..Len(history)
    /\ idx' = j
    /\ ops' = Push(ops, Op(kind, page, PathnameOf(history[j]), FALSE))
    /\ IF listeners > 0
       THEN /\ pc' = "pop_set"
            /\ event' = [type |-> "popstate", target |-> <<>>, defaultPrevented |-> FALSE]
       ELSE /\ pc' = "idle"
            /\ event' = NoEvent
    /\ UNCHANGED <<history, page, listeners, phase, realLoad, thrown>>
    /\ UNCHANGED routeVars

\* The host moved the history pointer to entry j (back or forward button) and
\* fires popstate on the window: a registered listener is called.
HostMove(kind, j) ==
    /\ pc = "idle"
    /\ j \in 1..Len(history)
    /\ idx' = j
    /\ ops' = Push(ops, Op(kind, page, PathnameOf(history[j]), FALSE))
    /\ IF listeners > 0
       THEN /\ pc' = "pop_set"
            /\ event' = [type |-> "popstate", target |-> <<>>, defaultPrevented |-> FALSE]
       ELSE /\ pc' = "idle"
            /\ event' = NoEvent
    /\ UNCHANGED <<history, page, listeners, phase, realLoad, thrown>>
    /\ UNCHANGED routeVars

HostBack == HostMove("back", idx - 1)

HostForward == HostMove("forward", idx + 1)

\* A listener that does not update the state.
OnHistoryChangeKeep ==
    /\ pc = "pop_set"
    /\ event' = NoEvent
    /\ pc' = "idle"
    /\ UNCHANGED <<history, idx, page, listeners, phase, realLoad, thrown, ops>>
    /\ UNCHANGED routeVars

\* A listener that, like navigate, pushes the path it reads.
OnHistoryChangePush ==
    /\ pc = "pop_set"
    /\ LET r == PushState(history, idx, Pathname)
       IN  /\ history' = r.history
           /\ idx' = r.idx
    /\ page' = Pathname
    /\ ops' = [ops EXCEPT ![Len(ops)].notified = Notifies(page, Pathname)]
    /\ event' = NoEvent
    /\ pc' = "idle"
    /\ UNCHANGED <<listeners, phase, realLoad, thrown>>
    /\ UNCHANGED routeVars

\* onHistoryChange: setPage(window.location.pathname)
OnHistoryChange ==
    /\ pc = "pop_set"
    /\ page' = Pathname
    /\ ops' = [ops EXCEPT ![Len(ops)].notified = Notifies(page, Pathname)]
    /\ listeners' = ListenersAfterRender(listeners, Notifies(page, Pathname))
    /\ event' = NoEvent
    /\ pc' = "idle"
    /\ UNCHANGED <<history, idx, phase, realLoad, thrown>>
    /\ UNCHANGED routeVars

Next ==
    \/ RunEffect
    \/ Cleanup
    \/ CleanupAgain
    \/ \E href \in Links : Click(href)
    \/ NavPreventDefault
    \/ NavPushState
    \/ NavSetPage
    \/ NavReturn
    \/ HostBack
    \/ HostForward
    \/ OnHistoryChange

Spec == Init /\ [][Next]_vars

----------------------------------------------------------------------------
\* The navigate of the README's Challenge 1: it is called with a pathname
\* (from the buttons' click handlers) and no listener is registered yet.

\* The arguments navigate is called with: the three the buttons pass, and a
\* target without a leading slash.
RawTargets == Links \cup {RelAbout}

InitRaw ==
    /\ \E p \in InitialPaths :
        /\ history = <<p>>
        /\ page = InitialPage(p)
    /\ idx = 1
    /\ listeners = 0
    /\ phase = "mounted"
    /\ pc = "idle"
    /\ event = NoEvent
    /\ realLoad = FALSE
    /\ thrown = "none"
    /\ ops = <<>>
    /\ routes = <<>>
    /\ current = Root
    /\ rendered = {}

\* navigate(pathname) is called.
RawCall(pathname) ==
    /\ pc = "idle"
    /\ idx < MaxHist
    /\ event' = [type |-> "call", target |-> pathname, defaultPrevented |-> FALSE]
    /\ thrown' = "none"
    /\ pc' = "raw_push"
    /\ UNCHANGED <<history, idx, page, listeners, phase, realLoad, ops>>
    /\ UNCHANGED routeVars

\* navigate: window.history.pushState(null, null, pathname)
RawPushState ==
    /\ pc = "raw_push"
    /\ LET r == PushState(history, idx, event.target)
       IN  /\ history' = r.history
           /\ idx' = r.idx
    /\ pc' = "raw_set"
    /\ UNCHANGED <<page, listeners, phase, event, realLoad, thrown, ops>>
    /\ UNCHANGED routeVars

\* navigate: setPage(pathname), after which it returns.
RawSetPage ==
    /\ pc = "raw_set"
    /\ page' = event.target
    /\ ops' = Push(ops, Op("navigate", page, event.target, Notifies(page, event.target)))
    /\ event' = NoEvent
    /\ pc' = "idle"
    /\ UNCHANGED <<history, idx, listeners, phase, realLoad, thrown>>
    /\ UNCHANGED routeVars

NextRaw ==
    \/ \E pathname \in RawTargets : RawCall(pathname)
    \/ RawPushState
    \/ RawSetPage

SpecRaw == InitRaw /\ [][NextRaw]_vars

----------------------------------------------------------------------------
\* The React Router solution: <Route> elements matched against the location

\* The path props the routes are given.
Patterns == {Root, About, Contact, ShortA}

RouteDefs == [path : Patterns, exact : BOOLEAN]

RouteTables == UNION {[1..n -> RouteDefs] : n \in 1..MaxRoutes}

\* The routes without the exact prop on the home route.
CodeRoutesNoExact ==
    << [path |-> Root, exact |-> FALSE],
       [path |-> About, exact |-> FALSE],
       [path |-> Contact, exact |-> FALSE] >>

\* The three routes of <main>.
CodeRoutes ==
    << [path |-> Root, exact |-> TRUE],
       [path |-> About, exact |-> FALSE],
       [path |-> Contact, exact |-> FALSE] >>

IsPrefix(s, t) == Len(s) <= Len(t) /\ SubSeq(t, 1, Len(s)) = s

\* A matcher that takes "the beginning of the path" by the character.
MatchPathStartsWith(pathname, path, exact) ==
    IF exact THEN pathname = path ELSE IsPrefix(path, pathname)

\* Whether a <Route path exact?> matches the pathname. The path is compiled
\* to a regular expression: the path without its trailing slash, then an
\* optional slash that must end the pathname, then the end of the pathname
\* (exact) or a lookahead for a slash or the end (not exact).
MatchPath(pathname, path, exact) ==
    LET base == IF path[Len(path)] = "/" THEN SubSeq(path, 1, Len(path) - 1) ELSE path
        rest == SubSeq(pathname, Len(base) + 1, Len(pathname))
    IN  /\ IsPrefix(base, pathname)
        /\ IF exact
           THEN rest = <<>> \/ rest = <<"/">>
           ELSE rest = <<>> \/ Head(rest) = "/"

\* A <Switch>: only the first route that matches is rendered.
RenderedFirstMatch(table, pathname) ==
    {i \in DOMAIN table :
        /\ MatchPath(pathname, table[i].path, table[i].exact)
        /\ \A j \in 1..(i - 1) : ~MatchPath(pathname, table[j].path, table[j].exact)}

\* The routes are siblings under <main>: each renders its children when it
\* matches, whatever the others do.
RenderedRoutes(table, pathname) ==
    {i \in DOMAIN table : MatchPath(pathname, table[i].path, table[i].exact)}

\* The children of the three routes, in order.
RouteComponents == <<"Home", "About", "Contact">>

\* What <main> of the React Router solution renders at a location:
\* BrowserRouter keeps the location at the host's current pathname.
RouterMain(pathname) ==
    {RouteComponents[i] : i \in RenderedRoutes(CodeRoutes, pathname)}

InitMatch ==
    /\ history = <<Root>>
    /\ page = Root
    /\ idx = 1
    /\ listeners = 0
    /\ phase = "mounted"
    /\ pc = "route_render"
    /\ event = NoEvent
    /\ realLoad = FALSE
    /\ thrown = "none"
    /\ ops = <<>>
    /\ routes \in RouteTables
    /\ current \in InitialPaths
    /\ rendered = {}

\* BrowserRouter renders its routes for the current location.
RenderRoutes ==
    /\ pc = "route_render"
    /\ rendered' = RenderedRoutes(routes, current)
    /\ pc' = "route_done"
    /\ UNCHANGED <<history, idx, page, listeners, phase, event, realLoad, thrown, ops>>
    /\ UNCHANGED <<routes, current>>

\* The location changes and BrowserRouter renders again.
LocationChange(pathname) ==
    /\ pc = "route_done"
    /\ current' = pathname
    /\ pc' = "route_render"
    /\ UNCHANGED <<history, idx, page, listeners, phase, event, realLoad, thrown, ops>>
    /\ UNCHANGED <<routes, rendered>>

NextMatch ==
    \/ RenderRoutes
    \/ \E pathname \in InitialPaths : LocationChange(pathname)

MatchSpec == InitMatch /\ [][NextMatch]_vars

----------------------------------------------------------------------------
\* Properties of the DIY router

LastOp == ops[Len(ops)]

\* C1: once navigate has returned, the page state equals the target of the
\* click and so does the host's current pathname.
NavigateReachesTarget ==
    pc = "nav_return" => (page = event.target /\ Pathname = event.target)

NavigateReachesTargetWitness ==
    /\ pc = "nav_return"
    /\ event.target = Contact
    /\ idx = 3
    /\ history[2] = About

\* C2: from construction until the listener is detached, whenever no handler
\* is running the page state equals the host's current pathname.
PageTracksHost ==
    (pc = "idle" /\ phase # "unmounted") => page = Pathname

PageTracksHostWitness ==
    /\ pc = "idle"
    /\ phase = "mounted"
    /\ Len(ops) = 2
    /\ ops[1].op = "back"
    /\ ops[2].op = "forward"
    /\ page = Pathname
    /\ page # history[1]

\* C3: right after construction, before any navigate call or history event,
\* the page state is the path the host was at when the app started.
InitialPageIsHostPath ==
    (ops = <<>> /\ pc = "idle") => (Len(history) = 1 /\ idx = 1 /\ page = Pathname)

InitialPageIsHostPathWitness ==
    /\ phase = "rendered"
    /\ ops = <<>>
    /\ page = AboutTeam

\* C4: navigate(p) from path q followed by one host back event leaves the page
\* state at q; the back step pushed nothing: the entry navigate appended is
\* still the one after the current entry.
BackUndoesNavigate ==
    (/\ pc = "idle"
     /\ Len(ops) = 2
     /\ ops[1].op = "navigate"
     /\ ops[2].op = "back")
    => (/\ page = ops[1].from
        /\ Pathname = ops[1].from
        /\ idx < Len(history)
        /\ history[idx + 1] = ops[1].to)

BackUndoesNavigateWitness ==
    /\ pc = "idle"
    /\ Len(ops) = 2
    /\ ops[1] = Op("navigate", Root, About, TRUE)
    /\ ops[2].op = "back"
    /\ page = Root

\* C5: on every popstate notification the listener sets the page state to the
\* host's current pathname and leaves the host history, its entries and its
\* current index, as they are.
ListenerReadsHostAndPushesNothing ==
    [][pc = "pop_set" => (page' = Pathname /\ history' = history /\ idx' = idx)]_vars

ListenerReadsHostAndPushesNothingWitness ==
    /\ pc = "idle"
    /\ Len(ops) > 0
    /\ LastOp.op \in {"back", "forward"}
    /\ LastOp.notified
    /\ page = LastOp.to
    /\ Len(history) = 3

\* C6: once the listener is detached no step, a host back or forward included,
\* changes the page state.
DetachedPageIsFrozen ==
    [][phase = "unmounted" => page' = page]_vars

DetachedPageIsFrozenWitness ==
    /\ phase = "unmounted"
    /\ pc = "idle"
    /\ Len(ops) = 2
    /\ ops[1].op = "detach"
    /\ ops[2].op = "back"
    /\ page = ops[1].from
    /\ page # Pathname

\* C8: an update of the page state, by navigate or by the listener, notifies
\* (re-renders) exactly when the new path differs from the old one; of two
\* consecutive navigate calls with the same target the second notifies nothing
\* and the first only if it changed the path.
SameTargetTwice ==
    /\ pc \in {"idle", "nav_return"}
    /\ Len(ops) = 2
    /\ ops[1].op = "navigate"
    /\ ops[2].op = "navigate"
    /\ ops[1].to = ops[2].to

SetPageStep ==
    pc \in {"nav_set", "pop_set"} => (ops'[Len(ops')].notified <=> (page' # page))

PushedNotYetSet ==
    pc = "nav_set" =>
        (/\ idx = Len(history)
         /\ idx > 1
         /\ Pathname = event.target)

PushStep ==
    pc = "nav_push" => (page' = page /\ pc' = "nav_set" /\ Len(history') = idx + 1)

SetStep ==
    pc = "nav_set" => (page' = event.target /\ history' = history /\ idx' = idx)

ListenerStart ==
    pc' = "pop_set" => (pc = "idle" /\ history' = history /\ idx' # idx)

PushBeforeSetAndSilent ==
    /\ []PushedNotYetSet
    /\ [][PushStep /\ SetStep /\ ListenerStart]_vars

PushBeforeSetAndSilentWitness ==
    /\ pc = "nav_set"
    /\ listeners = 1
    /\ Pathname = About
    /\ page = Root
    /\ history = <<Root, About>>

\* C12: every click on a link cancels the host's default navigation before
\* anything is pushed or set, so no sequence of clicks ends in a document
\* load.
CancelledBeforeEffects ==
    /\ ~realLoad
    /\ (pc \in {"nav_push", "nav_set", "nav_return"} => event.defaultPrevented)

CancelStep ==
    pc = "nav_prevent" =>
        (event'.defaultPrevented /\ history' = history /\ idx' = idx /\ page' = page)

ClickEffectStep ==
    (event.type = "click" /\ (history' # history \/ page' # page)) => event.defaultPrevented

NoRealPageLoad ==
    /\ []CancelledBeforeEffects
    /\ [][CancelStep /\ ClickEffectStep]_vars

NoRealPageLoadWitness ==
    /\ pc = "idle"
    /\ ~realLoad
    /\ Len(ops) = 2
    /\ ops[1].op = "navigate"
    /\ ops[2].op = "navigate"
    /\ ops[1].to = Contact
    /\ ops[2].to = Root

\* C13: detaching again, after the unmount, raises nothing and leaves no
\* listener registered, the page state and the host history as the first
\* detach left them.
DetachedState ==
    phase = "unmounted" => (listeners = 0 /\ thrown = "none")

DetachAgainStep ==
    (phase = "unmounted" /\ ops' # ops /\ ops'[Len(ops')].op = "detach")
    => (/\ listeners' = listeners
        /\ page' = page
        /\ history' = history
        /\ idx' = idx
        /\ phase' = phase
        /\ thrown' = "none")

DetachIsIdempotent ==
    /\ []DetachedState
    /\ [][DetachAgainStep]_vars

DetachIsIdempotentWitness ==
    /\ phase = "unmounted"
    /\ Len(ops) = 2
    /\ ops[1].op = "detach"
    /\ ops[2].op = "detach"
    /\ listeners = 0
    /\ thrown = "none"
    /\ Len(history) = 2

\* C14: the push and the page update of one navigate call are both applied
\* before any other event is handled: between them no popstate notification
\* and no second navigate starts, and a state in which the page state lags the
\* pushed entry is seen by no other handler.
NoPartialNavigationAtRest ==
    (phase = "mounted" /\ pc \in {"idle", "nav_prevent", "nav_push", "nav_return"})
    => page = Pathname

NavigateRunsOn ==
    /\ pc = "nav_push" => (pc' = "nav_set" /\ event' = event)
    /\ pc = "nav_set" => (pc' = "nav_return" /\ event' = event /\ ops'[Len(ops')].op = "navigate")

HandlerStartsAtRest ==
    (pc' \in {"nav_prevent", "pop_set"} /\ pc' # pc) => pc = "idle"

NavigateIsAtomic ==
    /\ []NoPartialNavigationAtRest
    /\ [][NavigateRunsOn /\ HandlerStartsAtRest]_vars

NavigateIsAtomicWitness ==
    /\ pc = "nav_set"
    /\ page # Pathname
    /\ listeners = 1
    /\ idx = 3
    /\ history[2] = Contact

\* C15: between the effect and its cleanup exactly one popstate listener is
\* registered, whatever navigations, history events and re-renders happen;
\* before the effect and after the cleanup there is none.
ExactlyOneListener ==
    /\ phase = "mounted" => listeners = 1
    /\ phase # "mounted" => listeners = 0

ExactlyOneListenerWitness ==
    /\ phase = "mounted"
    /\ pc = "idle"
    /\ listeners = 1
    /\ Len(ops) = 2
    /\ ops[1].op = "navigate"
    /\ ops[1].notified
    /\ ops[2].op = "back"
    /\ ops[2].notified

\* C16: a page state no condition of <main> holds for is an ordinary state in
\* which nothing is rendered and nothing is raised; <main> shows exactly the
\* pages whose path equals the page state: one page for "/", "/about" and
\* "/contact", none for any other path.
MainShowsEqualPathsOnly ==
    /\ thrown = "none"
    /\ page = Root => DiyMain(page) = {"Home"}
    /\ page = About => DiyMain(page) = {"About"}
    /\ page = Contact => DiyMain(page) = {"Contact"}
    /\ page \notin {Root, About, Contact} => DiyMain(page) = {}

MainShowsEqualPathsOnlyWitness ==
    /\ phase = "mounted"
    /\ pc = "idle"
    /\ Len(ops) = 2
    /\ ops[2].op = "back"
    /\ page = AboutTeam
    /\ DiyMain(page) = {}

IsNormalized(p) ==
    /\ p # <<>>
    /\ Head(p) = "/"
    /\ Len(p) > 1 => p[Len(p)] # "/"
    /\ \A i \in 1..Len(p) : p[i] \notin {"?", "#"}

\* C17 as stated: in every reachable state the page state is a normalized
\* path: a leading slash, no trailing slash unless it is "/", no query string
\* or fragment.
PageIsNormalized == IsNormalized(page)

\* C17 as amended: the page state always begins with "/" and carries no query
\* string or fragment, and a path set by navigate is normalized; a trailing
\* slash is not removed: a page state that is not normalized is the pathname
\* of the entry the app started at, set at initialization or by the listener.
PageIsHostPathname ==
    /\ page # <<>>
    /\ Head(page) = "/"
    /\ \A i \in 1..Len(page) : page[i] \notin {"?", "#"}
    /\ ~IsNormalized(page) => (page = PathnameOf(history[1]) /\ page \notin Links)
    /\ (pc \in {"idle", "nav_return"} /\ Len(ops) > 0 /\ LastOp.op = "navigate")
       => IsNormalized(page)

PageIsHostPathnameWitness ==
    /\ pc = "idle"
    /\ Len(ops) = 2
    /\ ops[1].op = "navigate"
    /\ ops[2].op = "back"
    /\ ops[2].notified
    /\ page = AboutSlash

\* C18 as stated: the history only ever changes by navigate appending one
\* entry for its target; no entry that exists is removed, replaced or moved.
HistoryAppendStep ==
    history' # history => (pc = "nav_push" /\ history' = Append(history, event.target))

HistoryOnlyAppended == [][HistoryAppendStep]_vars

\* C18 as amended: the history changes only by navigate's push, which puts one
\* entry for the target right after the current entry and keeps the entries
\* up to the current one as they are; the entries after the current one are
\* dropped by that push. No other step changes the history, and the page
\* state is only ever set to the target or to the current entry's path.
HistoryPushStep ==
    /\ history' # history => pc = "nav_push"
    /\ pc = "nav_push" =>
         (/\ history' = Append(SubSeq(history, 1, idx), event.target)
          /\ idx' = idx + 1)
    /\ page' # page => (page' = event.target \/ page' = PathnameOf(history'[idx']))

HistoryOnlyPushedAfterCurrent == [][HistoryPushStep]_vars

HistoryOnlyPushedAfterCurrentWitness ==
    /\ pc = "idle"
    /\ Len(ops) = 2
    /\ ops[1].op = "back"
    /\ ops[2].op = "navigate"
    /\ history = <<Root, Contact>>
    /\ idx = 2

\* C19: over any sequence of link clicks and back/forward moves, whenever
\* the host is at "/", "/about" or "/contact" (and no handler is running) the
\* DIY router and the React Router solution render the same single page.
SameSinglePage ==
    (phase = "mounted" /\ pc = "idle" /\ Pathname \in Links)
    => (/\ DiyMain(page) = RouterMain(Pathname)
        /\ Cardinality(DiyMain(page)) = 1)

SameSinglePageWitness ==
    /\ phase = "mounted"
    /\ pc = "idle"
    /\ Len(ops) = 2
    /\ ops[1].op = "navigate"
    /\ ops[2].op = "back"
    /\ Pathname = Contact
    /\ DiyMain(page) = {"Contact"}
    /\ RouterMain(Pathname) = {"Contact"}

----------------------------------------------------------------------------
\* Properties of navigate(pathname)

\* C7: navigate called with a target that has no leading slash fails with
\* InvalidPath, pushes no history entry and leaves the page state as it was.
MalformedStep ==
    (pc \in {"raw_push", "raw_set"} /\ Head(event.target) # "/")
    => (history' = history /\ idx' = idx /\ page' = page /\ thrown' = "InvalidPath")

MalformedTargetRejected == [][MalformedStep]_vars

----------------------------------------------------------------------------
\* Properties of the route matching

\* The path with one trailing slash dropped, the root excepted.
Normalize(p) ==
    IF Len(p) > 1 /\ p[Len(p)] = "/" THEN SubSeq(p, 1, Len(p) - 1) ELSE p

FirstSlash(s) ==
    CHOOSE i \in 1..(Len(s) + 1) :
        /\ (i <= Len(s) => s[i] = "/")
        /\ \A j \in 1..(i - 1) : s[j] # "/"

RECURSIVE Segments(_)
\* The segments of a path: what stands between its slashes.
Segments(s) ==
    IF s = <<>> THEN <<>>
    ELSE IF Head(s) = "/" THEN Segments(Tail(s))
    ELSE <<SubSeq(s, 1, FirstSlash(s) - 1)>> \o Segments(SubSeq(s, FirstSlash(s), Len(s)))

\* What the two modes are to mean: the whole path, or a prefix of it that
\* ends where a segment ends.
ModeMatches(r, pathname) ==
    IF r.exact
    THEN Normalize(pathname) = r.path
    ELSE IsPrefix(Segments(r.path), Segments(pathname))

ExactRootPrefixAbout ==
    << [path |-> Root, exact |-> TRUE], [path |-> About, exact |-> FALSE] >>

\* C9: a route matches in exact mode iff the (normalized) current path equals
\* its pattern, and in prefix mode iff the current path starts with the pattern
\* at a segment boundary, so that "/about" does not match "/a"; with the routes
\* {"/", exact} and {"/about", prefix}, "/about" and "/about/team" match only
\* the second and "/" only the first.
MatchFollowsMode ==
    /\ \A i \in DOMAIN routes :
         MatchPath(current, routes[i].path, routes[i].exact) <=> ModeMatches(routes[i], current)
    /\ \A i \in DOMAIN routes :
         (pc = "route_done" /\ routes[i].path = ShortA /\ current \in {About, AboutTeam})
         => i \notin rendered
    /\ (pc = "route_done" /\ routes = ExactRootPrefixAbout)
       => /\ current = About => rendered = {2}
          /\ current = Root => rendered = {1}
          /\ current = AboutTeam => rendered = {2}
    /\ (pc = "route_done" /\ routes = CodeRoutes)
       => /\ current = About => rendered = {2}
          /\ current = Root => rendered = {1}
          /\ current = Contact => rendered = {3}

MatchFollowsModeWitness ==
    /\ pc = "route_done"
    /\ routes = ExactRootPrefixAbout
    /\ current = AboutTeam
    /\ rendered = {2}

PrefixRootExactAbout ==
    << [path |-> Root, exact |-> FALSE], [path |-> About, exact |-> TRUE] >>

\* C10: every route that matches the current path is rendered, not only the
\* first or the most specific; a "/" route in prefix mode is rendered for every
\* path, and with the routes {"/", prefix} and {"/about", exact} the path
\* "/about" renders both.
EveryMatchRendered ==
    pc = "route_done" =>
        /\ \A i \in DOMAIN routes : ModeMatches(routes[i], current) => i \in rendered
        /\ \A i \in DOMAIN routes : (routes[i].path = Root /\ ~routes[i].exact) => i \in rendered
        /\ (routes = PrefixRootExactAbout /\ current = About) => rendered = {1, 2}

EveryMatchRenderedWitness ==
    /\ pc = "route_done"
    /\ routes = PrefixRootExactAbout
    /\ current = About
    /\ rendered = {1, 2}

====
